---- MODULE Spec2Model ----
(***************************************************************************)
(* Model of src/main.py: class Processor (validation of a list of integers *)
(* and the bounded thread-pool map that doubles every item).               *)
(*                                                                         *)
(* The main thread is modelled by pc; the pool that run_process creates    *)
(* with ThreadPoolExecutor(max_workers=...) and drives with executor.map   *)
(* is modelled by its work queue, its idle semaphore, its futures and its  *)
(* worker threads.  Python indices are 0-based; sequences here are 1-based *)
(* and the index an error message reports is converted where it is built.  *)
(***************************************************************************)
EXTENDS Integers, Sequences, FiniteSets, TLC

\* ---- bounds of the model ------------------------------------------------
MaxLen == 3          \* longest candidate collection
MaxCeiling == 2      \* small worker ceilings 1..MaxCeiling, besides the default
MaxRuns == 2         \* calls of run_process on one Processor

\* ---- program constant ----------------------------------------------------
DefaultMaxWorkers == 8    \* MAX_WORKERS = 8

\* ---- values ---------------------------------------------------------------
\* An element of a candidate: a plain int, a str (not an int), or an instance
\* of a subclass of int whose multiplication raises an Exception (it passes
\* isinstance(item, int), and process_item fails on it).
IntVals == {1, -2}
IntE(v) == [kind |-> "int", val |-> v]
StrE == [kind |-> "str", val |-> 0]
IntSubE == [kind |-> "intsub", val |-> 3]
Elems == {IntE(v) : v \in IntVals} \cup {StrE, IntSubE}

SeqsUpTo(S, n) == UNION {[1..k -> S] : k \in 0..n}

\* A candidate handed to Processor(items=...): None (no len()), a str (a
\* non-list that has a len()), or a list.
Candidates ==
    {[kind |-> "none", elems |-> <<>>]}
    \cup {[kind |-> "str", elems |-> s] : s \in SeqsUpTo({StrE}, MaxLen)}
    \cup {[kind |-> "list", elems |-> s] : s \in SeqsUpTo(Elems, MaxLen)}

Ceilings == (1..MaxCeiling) \cup {DefaultMaxWorkers}

Min(a, b) == IF a <= b THEN a ELSE b

\* ---- pure functions of the source -----------------------------------------
\* isinstance(item, int)
IsInstanceInt(item) == item.kind \in {"int", "intsub"}

\* Variant of the loop that keeps scanning and reports the last offending position.
RECURSIVE LastNonInt(_, _)
LastNonInt(items, i) ==
    IF i > Len(items) THEN 0
    ELSE LET r == LastNonInt(items, i + 1) IN
         IF r # 0 THEN r
         ELSE IF ~IsInstanceInt(items[i]) THEN i ELSE 0

\* The loop of validate_items: for i, item in enumerate(items), from position
\* i (1-based) on; 0 when no element fails isinstance(item, int).
RECURSIVE FirstNonInt(_, _)
FirstNonInt(items, i) ==
    IF i > Len(items) THEN 0
    ELSE IF ~IsInstanceInt(items[i]) THEN i
    ELSE FirstNonInt(items, i + 1)

NoError == [type |-> "", message |-> "", index |-> -1]

\* Variant of validate_items without the emptiness check.
validate_itemsNoEmptyCheck(c) ==
    IF c.kind # "list"
    THEN [type |-> "ValueError", message |-> "Data must be a list", index |-> -1]
    ELSE IF FirstNonInt(c.elems, 1) # 0
    THEN [type |-> "ValueError", message |-> "Incorrect data type at index",
          index |-> FirstNonInt(c.elems, 1) - 1]
    ELSE NoError

\* validate_items: the error it raises, or NoError when it returns items.
validate_items(c) ==
    IF c.kind # "list"
    THEN [type |-> "ValueError", message |-> "Data must be a list", index |-> -1]
    ELSE IF Len(c.elems) = 0
    THEN [type |-> "ValueError", message |-> "Data cannot be empty", index |-> -1]
    ELSE IF FirstNonInt(c.elems, 1) # 0
    THEN [type |-> "ValueError", message |-> "Incorrect data type at index",
          index |-> FirstNonInt(c.elems, 1) - 1]
    ELSE NoError

\* process_item raises for the int subclass (its __mul__ raises an Exception).
Raises(item) == item.kind = "intsub"

\* ---- state -----------------------------------------------------------------
VARIABLES
    MAX_WORKERS,   \* the module-level setting (8 by default, set from the environment)
    candidate,     \* the argument of Processor(items=...)
    pc,            \* main thread: "start","validate","raised","ready","submit","collect","shutdown","join"
    error,         \* the exception the constructor raised (NoError if none)
    max_workers,   \* self.max_workers
    items,         \* self.items
    returned,      \* the lists the completed run_process calls returned, in order
    caught,        \* per completed call: did the except clause run
    pools,         \* number of ThreadPoolExecutor objects created so far
    applied,       \* number of process_item invocations started so far
    fstate,        \* futures of the current pool: "none","pending","running","done","failed","cancelled"
    fvalue,        \* result stored in a done future
    queue,         \* executor._work_queue: task indices, 0 for the None wake-up
    idle,          \* executor._idle_semaphore
    shutdownFlag,  \* executor._shutdown
    wstate,        \* worker threads: "unborn","waiting","claimed","running","exited"
    wtask,         \* the work item a worker holds (0: none)
    submitted,     \* number of futures submitted by map so far
    out,           \* the list being built by list(...)
    exc,           \* an exception is propagating out of the with block
    nclaimed,      \* per task of the current pool: times its work item was taken from the queue
    ninvoked,      \* per task of the current pool: times process_item was entered for it
    nwritten       \* per task of the current pool: times a result or exception was stored in its future

vars == <<MAX_WORKERS, candidate, pc, error, max_workers, items, returned, caught,
          pools, applied, fstate, fvalue, queue, idle, shutdownFlag, wstate, wtask,
          submitted, out, exc, nclaimed, ninvoked, nwritten>>

histVars == <<nclaimed, ninvoked, nwritten>>
poolVars == <<fstate, fvalue, queue, idle, shutdownFlag, wstate, wtask, submitted, out, exc,
              nclaimed, ninvoked, nwritten>>
objVars == <<MAX_WORKERS, candidate, error, max_workers, items>>

Tasks == 1..MaxLen
Threads == 1..MaxLen

NoPool ==
    /\ fstate = [i \in Tasks |-> "none"]
    /\ fvalue = [i \in Tasks |-> 0]
    /\ queue = <<>>
    /\ idle = 0
    /\ shutdownFlag = FALSE
    /\ wstate = [w \in Threads |-> "unborn"]
    /\ wtask = [w \in Threads |-> 0]
    /\ submitted = 0
    /\ out = <<>>
    /\ exc = FALSE
    /\ nclaimed = [i \in Tasks |-> 0]
    /\ ninvoked = [i \in Tasks |-> 0]
    /\ nwritten = [i \in Tasks |-> 0]

Init ==
    /\ MAX_WORKERS \in Ceilings
    /\ candidate \in Candidates
    /\ pc = "start"
    /\ error = NoError
    /\ max_workers = 0
    /\ items = <<>>
    /\ returned = <<>>
    /\ caught = <<>>
    /\ pools = 0
    /\ applied = 0
    /\ NoPool

\* Variant of process_item whose result depends on the calls made before
\* (a transformation that keeps state between calls).
process_itemStateful(item) == item.val * 2 * (Len(returned) + 1)

\* process_item: result = item * 2
process_item(item) == item.val * 2

\* ---- Processor.__init__ ----------------------------------------------------
\* Variant of the first statement of __init__ that ignores the ceiling.
InitMaxWorkersNoCeiling ==
    /\ pc = "start"
    /\ IF candidate.kind = "none"
       THEN /\ error' = [type |-> "TypeError", message |-> "object has no len()", index |-> -1]
            /\ pc' = "raised"
            /\ UNCHANGED max_workers
       ELSE /\ max_workers' = Len(candidate.elems)
            /\ pc' = "validate"
            /\ UNCHANGED error
    /\ UNCHANGED <<MAX_WORKERS, candidate, items, returned, caught, pools, applied>>
    /\ UNCHANGED poolVars

\* Variant of the first statement of __init__ that takes the ceiling itself
\* (self.max_workers = MAX_WORKERS).
InitMaxWorkersCeilingOnly ==
    /\ pc = "start"
    /\ IF candidate.kind = "none"
       THEN /\ error' = [type |-> "TypeError", message |-> "object has no len()", index |-> -1]
            /\ pc' = "raised"
            /\ UNCHANGED max_workers
       ELSE /\ max_workers' = MAX_WORKERS
            /\ pc' = "validate"
            /\ UNCHANGED error
    /\ UNCHANGED <<MAX_WORKERS, candidate, items, returned, caught, pools, applied>>
    /\ UNCHANGED poolVars

\* self.max_workers = min(MAX_WORKERS, len(items)): len(None) raises TypeError.
InitMaxWorkers ==
    /\ pc = "start"
    /\ IF candidate.kind = "none"
       THEN /\ error' = [type |-> "TypeError", message |-> "object has no len()", index |-> -1]
            /\ pc' = "raised"
            /\ UNCHANGED max_workers
       ELSE /\ max_workers' = Min(MAX_WORKERS, Len(candidate.elems))
            /\ pc' = "validate"
            /\ UNCHANGED error
    /\ UNCHANGED <<MAX_WORKERS, candidate, items, returned, caught, pools, applied>>
    /\ UNCHANGED poolVars

\* Variant of the validation step that records the error but lets the
\* constructor complete (the failure is logged, not raised).
ValidateSwallow ==
    /\ pc = "validate"
    /\ error' = validate_items(candidate)
    /\ items' = candidate.elems
    /\ pc' = "ready"
    /\ UNCHANGED <<MAX_WORKERS, candidate, max_workers, returned, caught, pools, applied>>
    /\ UNCHANGED poolVars

\* self.items = self.validate_items(items)
Validate ==
    /\ pc = "validate"
    /\ IF validate_items(candidate) # NoError
       THEN /\ error' = validate_items(candidate)
            /\ pc' = "raised"
            /\ UNCHANGED items
       ELSE /\ items' = candidate.elems
            /\ pc' = "ready"
            /\ UNCHANGED error
    /\ UNCHANGED <<MAX_WORKERS, candidate, max_workers, returned, caught, pools, applied>>
    /\ UNCHANGED poolVars

\* ---- Processor.run_process: the main thread --------------------------------
\* with ThreadPoolExecutor(max_workers=self.max_workers) as executor: a fresh
\* pool per call.  ThreadPoolExecutor raises ValueError for max_workers <= 0,
\* which the except clause turns into the empty list.
RunProcess ==
    /\ pc = "ready"
    /\ Len(returned) < MaxRuns
    /\ IF max_workers <= 0
       THEN /\ returned' = Append(returned, <<>>)
            /\ caught' = Append(caught, TRUE)
            /\ UNCHANGED <<pc, pools>>
            /\ UNCHANGED poolVars
       ELSE /\ pools' = pools + 1
            /\ pc' = "submit"
            /\ fstate' = [i \in Tasks |-> "none"]
            /\ fvalue' = [i \in Tasks |-> 0]
            /\ queue' = <<>>
            /\ idle' = 0
            /\ shutdownFlag' = FALSE
            /\ wstate' = [w \in Threads |-> "unborn"]
            /\ wtask' = [w \in Threads |-> 0]
            /\ submitted' = 0
            /\ out' = <<>>
            /\ exc' = FALSE
            /\ nclaimed' = [i \in Tasks |-> 0]
            /\ ninvoked' = [i \in Tasks |-> 0]
            /\ nwritten' = [i \in Tasks |-> 0]
            /\ UNCHANGED <<returned, caught>>
    /\ UNCHANGED objVars
    /\ UNCHANGED applied

NumThreads == Cardinality({w \in Threads : wstate[w] # "unborn"})

\* Variant of submit that starts a thread for every work item, whatever the
\* idle permits and the ceiling.
SubmitAlwaysSpawn ==
    /\ pc = "submit"
    /\ submitted < Len(items)
    /\ LET k == submitted + 1 IN
        /\ fstate' = [fstate EXCEPT ![k] = "pending"]
        /\ queue' = Append(queue, k)
        /\ submitted' = k
        /\ pc' = IF k = Len(items) THEN "collect" ELSE "submit"
    /\ wstate' = [wstate EXCEPT ![NumThreads + 1] = "waiting"]
    /\ UNCHANGED objVars
    /\ UNCHANGED <<returned, caught, pools, applied, fvalue, idle, shutdownFlag, wtask, out, exc>>
    /\ UNCHANGED histVars

\* executor.map(self.process_item, self.items), first half:
\* fs = [self.submit(fn, *args) for args in zip(*iterables)].  One submit puts
\* the work item on the queue and runs _adjust_thread_count: an available idle
\* permit is consumed, otherwise a thread is started while fewer than
\* max_workers exist (threads are numbered in creation order).
Submit ==
    /\ pc = "submit"
    /\ submitted < Len(items)
    /\ LET k == submitted + 1 IN
        /\ fstate' = [fstate EXCEPT ![k] = "pending"]
        /\ queue' = Append(queue, k)
        /\ submitted' = k
        /\ pc' = IF k = Len(items) THEN "collect" ELSE "submit"
    /\ IF idle > 0
       THEN idle' = idle - 1 /\ UNCHANGED wstate
       ELSE /\ UNCHANGED idle
            /\ IF NumThreads < max_workers
               THEN wstate' = [wstate EXCEPT ![NumThreads + 1] = "waiting"]
               ELSE UNCHANGED wstate
    /\ UNCHANGED objVars
    /\ UNCHANGED <<returned, caught, pools, applied, fvalue, shutdownFlag, wtask, out, exc>>
    /\ UNCHANGED histVars

\* Variant of the collection that yields results as they complete, not in
\* submission order.
CollectCompletionOrder ==
    /\ pc = "collect"
    /\ \E i \in 1..Len(items) :
        /\ fstate[i] \in {"done", "failed"}
        /\ IF fstate[i] = "done"
           THEN /\ out' = Append(out, fvalue[i])
                /\ fstate' = [fstate EXCEPT ![i] = "yielded"]
                /\ pc' = IF Len(out) + 1 = Len(items) THEN "shutdown" ELSE "collect"
                /\ UNCHANGED exc
           ELSE /\ exc' = TRUE
                /\ fstate' = [j \in Tasks |->
                                IF fstate[j] = "pending" THEN "cancelled" ELSE fstate[j]]
                /\ pc' = "shutdown"
                /\ UNCHANGED out
    /\ UNCHANGED objVars
    /\ UNCHANGED <<returned, caught, pools, applied, fvalue, queue, idle, shutdownFlag,
                   wstate, wtask, submitted>>
    /\ UNCHANGED histVars

\* Variant of the collection that puts a default value in the place of a
\* failed item instead of re-raising its exception.
CollectDefaultOnFailure ==
    /\ pc = "collect"
    /\ LET n == Len(out) + 1 IN
        /\ fstate[n] \in {"done", "failed"}
        /\ out' = Append(out, IF fstate[n] = "done" THEN fvalue[n] ELSE 0)
        /\ pc' = IF n = Len(items) THEN "shutdown" ELSE "collect"
    /\ UNCHANGED objVars
    /\ UNCHANGED <<returned, caught, pools, applied, fstate, fvalue, queue, idle, shutdownFlag,
                   wstate, wtask, submitted, exc>>
    /\ UNCHANGED histVars

\* Variant of the collection that does not block on a future: it takes
\* whatever the future holds at the time.
CollectNoWait ==
    /\ pc = "collect"
    /\ LET n == Len(out) + 1 IN
        IF fstate[n] # "failed"
        THEN /\ out' = Append(out, fvalue[n])
             /\ pc' = IF n = Len(items) THEN "shutdown" ELSE "collect"
             /\ UNCHANGED <<fstate, exc>>
        ELSE /\ exc' = TRUE
             /\ fstate' = [i \in Tasks |->
                             IF i > n /\ fstate[i] = "pending" THEN "cancelled"
                             ELSE fstate[i]]
             /\ pc' = "shutdown"
             /\ UNCHANGED out
    /\ UNCHANGED objVars
    /\ UNCHANGED <<returned, caught, pools, applied, fvalue, queue, idle, shutdownFlag,
                   wstate, wtask, submitted>>
    /\ UNCHANGED histVars

\* executor.map, second half, consumed by list(...): the result iterator
\* waits for the futures in submission order.  A future that holds an
\* exception re-raises it; the iterator's finally clause then cancels the
\* futures not yet yielded (only a pending future can be cancelled).
Collect ==
    /\ pc = "collect"
    /\ LET n == Len(out) + 1 IN
        /\ fstate[n] \in {"done", "failed"}
        /\ IF fstate[n] = "done"
           THEN /\ out' = Append(out, fvalue[n])
                /\ pc' = IF n = Len(items) THEN "shutdown" ELSE "collect"
                /\ UNCHANGED <<fstate, exc>>
           ELSE /\ exc' = TRUE
                /\ fstate' = [i \in Tasks |->
                                IF i > n /\ fstate[i] = "pending" THEN "cancelled"
                                ELSE fstate[i]]
                /\ pc' = "shutdown"
                /\ UNCHANGED out
    /\ UNCHANGED objVars
    /\ UNCHANGED <<returned, caught, pools, applied, fvalue, queue, idle, shutdownFlag,
                   wstate, wtask, submitted>>
    /\ UNCHANGED histVars

\* Leaving the with block, normally or with an exception: __exit__ calls
\* shutdown(wait=True), which sets _shutdown and puts the None wake-up.
Shutdown ==
    /\ pc = "shutdown"
    /\ shutdownFlag' = TRUE
    /\ queue' = Append(queue, 0)
    /\ pc' = "join"
    /\ UNCHANGED objVars
    /\ UNCHANGED <<returned, caught, pools, applied, fstate, fvalue, idle, wstate, wtask,
                   submitted, out, exc>>
    /\ UNCHANGED histVars

\* Variant: shutdown(wait=False), no join.
ThreadsNotJoined == TRUE

\* shutdown(wait=True): for t in self._threads: t.join()
ThreadsJoined == \A w \in Threads : wstate[w] \in {"unborn", "exited"}

\* Variant: the except clause returns what was collected before the failure.
ReturnValuePartial == out

\* What run_process hands to its caller: the list built by list(...), or []
\* from the except clause when an Exception propagated out of the with block.
ReturnValue == IF exc THEN <<>> ELSE out

\* The join of shutdown(wait=True) completes, then run_process returns.
Join ==
    /\ pc = "join"
    /\ ThreadsJoined
    /\ returned' = Append(returned, ReturnValue)
    /\ caught' = Append(caught, exc)
    /\ pc' = "ready"
    /\ UNCHANGED objVars
    /\ UNCHANGED <<pools, applied>>
    /\ UNCHANGED poolVars

\* Which of the threads blocked in work_queue.get receives an item is up to
\* the scheduler.  Waiting workers hold no task and are interchangeable, so
\* the item is given to the lowest-numbered one: any other choice leads to
\* the same state with the workers renamed.
TakesNext(w) ==
    /\ wstate[w] = "waiting"
    /\ \A v \in Threads : wstate[v] = "waiting" => w <= v

\* Variant of the worker's queue read in which a worker that exits on the
\* None wake-up does not put it back for the other workers.
WorkerGetNoRelay(w) ==
    /\ TakesNext(w)
    /\ queue # <<>>
    /\ IF Head(queue) = 0
       THEN /\ queue' = Tail(queue)
            /\ IF shutdownFlag
               THEN wstate' = [wstate EXCEPT ![w] = "exited"]
               ELSE UNCHANGED wstate
            /\ UNCHANGED <<wtask, nclaimed>>
       ELSE /\ queue' = Tail(queue)
            /\ wstate' = [wstate EXCEPT ![w] = "claimed"]
            /\ wtask' = [wtask EXCEPT ![w] = Head(queue)]
            /\ nclaimed' = [nclaimed EXCEPT ![Head(queue)] = @ + 1]
    /\ UNCHANGED objVars
    /\ UNCHANGED <<pc, returned, caught, pools, applied, fstate, fvalue, idle, shutdownFlag,
                   submitted, out, exc, ninvoked, nwritten>>

\* Variant of the worker's queue read on a last-in first-out queue.
WorkerGetLifo(w) ==
    /\ TakesNext(w)
    /\ queue # <<>>
    /\ LET last == queue[Len(queue)]
           rest == SubSeq(queue, 1, Len(queue) - 1)
       IN  IF last = 0
           THEN IF shutdownFlag
                THEN /\ wstate' = [wstate EXCEPT ![w] = "exited"]
                     /\ UNCHANGED <<queue, wtask, nclaimed>>
                ELSE /\ queue' = rest
                     /\ UNCHANGED <<wstate, wtask, nclaimed>>
           ELSE /\ queue' = rest
                /\ wstate' = [wstate EXCEPT ![w] = "claimed"]
                /\ wtask' = [wtask EXCEPT ![w] = last]
                /\ nclaimed' = [nclaimed EXCEPT ![last] = @ + 1]
    /\ UNCHANGED objVars
    /\ UNCHANGED <<pc, returned, caught, pools, applied, fstate, fvalue, idle, shutdownFlag,
                   submitted, out, exc, ninvoked, nwritten>>

\* ---- the pool's worker threads (_worker) -------------------------------------
\* work_item = work_queue.get(block=True).  A None wake-up with the executor
\* shut down makes the worker put None back for the others and return.
WorkerGet(w) ==
    /\ TakesNext(w)
    /\ queue # <<>>
    /\ IF Head(queue) = 0
       THEN IF shutdownFlag
            THEN /\ queue' = Append(Tail(queue), 0)
                 /\ wstate' = [wstate EXCEPT ![w] = "exited"]
                 /\ UNCHANGED <<wtask, nclaimed>>
            ELSE /\ queue' = Tail(queue)
                 /\ UNCHANGED <<wstate, wtask, nclaimed>>
       ELSE /\ queue' = Tail(queue)
            /\ wstate' = [wstate EXCEPT ![w] = "claimed"]
            /\ wtask' = [wtask EXCEPT ![w] = Head(queue)]
            /\ nclaimed' = [nclaimed EXCEPT ![Head(queue)] = @ + 1]
    /\ UNCHANGED objVars
    /\ UNCHANGED <<pc, returned, caught, pools, applied, fstate, fvalue, idle, shutdownFlag,
                   submitted, out, exc, ninvoked, nwritten>>

\* work_item.run(), first statement: set_running_or_notify_cancel().  A
\* cancelled work item is dropped (and the idle permit released); otherwise
\* the future is running and self.fn(*self.args) is entered.
WorkerStart(w) ==
    /\ wstate[w] = "claimed"
    /\ IF fstate[wtask[w]] = "cancelled"
       THEN /\ wstate' = [wstate EXCEPT ![w] = "waiting"]
            /\ wtask' = [wtask EXCEPT ![w] = 0]
            /\ idle' = idle + 1
            /\ UNCHANGED <<fstate, applied, ninvoked>>
       ELSE /\ fstate' = [fstate EXCEPT ![wtask[w]] = "running"]
            /\ wstate' = [wstate EXCEPT ![w] = "running"]
            /\ applied' = applied + 1
            /\ ninvoked' = [ninvoked EXCEPT ![wtask[w]] = @ + 1]
            /\ UNCHANGED <<wtask, idle>>
    /\ UNCHANGED objVars
    /\ UNCHANGED <<pc, returned, caught, pools, fvalue, queue, shutdownFlag, submitted, out, exc,
                   nclaimed, nwritten>>

\* Variant of the end of a task that also doubles the item in place
\* (self.items[i] = result).
WorkerFinishInPlace(w) ==
    /\ wstate[w] = "running"
    /\ LET i == wtask[w] IN
        IF Raises(items[i])
        THEN /\ fstate' = [fstate EXCEPT ![i] = "failed"]
             /\ UNCHANGED <<fvalue, items>>
        ELSE /\ fstate' = [fstate EXCEPT ![i] = "done"]
             /\ fvalue' = [fvalue EXCEPT ![i] = process_item(items[i])]
             /\ items' = [items EXCEPT ![i] = IntE(process_item(items[i]))]
    /\ nwritten' = [nwritten EXCEPT ![wtask[w]] = @ + 1]
    /\ wstate' = [wstate EXCEPT ![w] = "waiting"]
    /\ wtask' = [wtask EXCEPT ![w] = 0]
    /\ idle' = idle + 1
    /\ UNCHANGED <<MAX_WORKERS, candidate, error, max_workers>>
    /\ UNCHANGED <<pc, returned, caught, pools, applied, queue, shutdownFlag, submitted, out, exc,
                   nclaimed, ninvoked>>

\* Variant of the end of a task that retries a failed item: the work item
\* goes back on the queue instead of the exception being stored.
WorkerFinishRetry(w) ==
    /\ wstate[w] = "running"
    /\ LET i == wtask[w] IN
        IF Raises(items[i])
        THEN /\ fstate' = [fstate EXCEPT ![i] = "pending"]
             /\ queue' = Append(queue, i)
             /\ UNCHANGED <<fvalue, nwritten>>
        ELSE /\ fstate' = [fstate EXCEPT ![i] = "done"]
             /\ fvalue' = [fvalue EXCEPT ![i] = process_item(items[i])]
             /\ nwritten' = [nwritten EXCEPT ![i] = @ + 1]
             /\ UNCHANGED queue
    /\ wstate' = [wstate EXCEPT ![w] = "waiting"]
    /\ wtask' = [wtask EXCEPT ![w] = 0]
    /\ idle' = idle + 1
    /\ UNCHANGED objVars
    /\ UNCHANGED <<pc, returned, caught, pools, applied, shutdownFlag, submitted, out, exc,
                   nclaimed, ninvoked>>

\* process_item returns or raises; _WorkItem.run stores the result or the
\* exception in the future; the worker releases an idle permit and loops.
WorkerFinish(w) ==
    /\ wstate[w] = "running"
    /\ LET i == wtask[w] IN
        IF Raises(items[i])
        THEN /\ fstate' = [fstate EXCEPT ![i] = "failed"]
             /\ UNCHANGED fvalue
        ELSE /\ fstate' = [fstate EXCEPT ![i] = "done"]
             /\ fvalue' = [fvalue EXCEPT ![i] = process_item(items[i])]
    /\ nwritten' = [nwritten EXCEPT ![wtask[w]] = @ + 1]
    /\ wstate' = [wstate EXCEPT ![w] = "waiting"]
    /\ wtask' = [wtask EXCEPT ![w] = 0]
    /\ idle' = idle + 1
    /\ UNCHANGED objVars
    /\ UNCHANGED <<pc, returned, caught, pools, applied, queue, shutdownFlag, submitted, out, exc,
                   nclaimed, ninvoked>>

Next ==
    \/ InitMaxWorkers
    \/ Validate
    \/ RunProcess
    \/ Submit
    \/ Collect
    \/ Shutdown
    \/ Join
    \/ \E w \in Threads : WorkerGet(w)
    \/ \E w \in Threads : WorkerStart(w)
    \/ \E w \in Threads : WorkerFinish(w)

Spec == Init /\ [][Next]_vars

\* The steps of one run_process call on the main thread, and the steps of one
\* worker thread.
MainStep == Submit \/ Collect \/ Shutdown \/ Join
WorkerStep(w) == WorkerGet(w) \/ WorkerStart(w) \/ WorkerFinish(w)

\* Termination does not depend on the values of the items, only on which of
\* them make process_item raise: the candidates of the fair specification
\* are the lists over one plain int and the raising int subclass.
FairElems == {IntE(1), IntSubE}
FairInit ==
    /\ Init
    /\ candidate.kind = "list"
    /\ \A i \in 1..Len(candidate.elems) : candidate.elems[i] \in FairElems

\* Every call of run_process starts from a fresh pool, so the fair
\* specification follows the first call of each Processor.
FirstRunProcess == RunProcess /\ returned = <<>>
FairNext ==
    \/ InitMaxWorkers
    \/ Validate
    \/ FirstRunProcess
    \/ MainStep
    \/ \E w \in Threads : WorkerStep(w)

\* Fair scheduling of the threads: the main thread, once inside run_process,
\* and every worker thread keep taking steps while they can (process_item
\* always returns or raises after its sleep).  The caller is not obliged to
\* construct a Processor or to call run_process.
FairSpec ==
    /\ FairInit
    /\ [][FairNext]_vars
    /\ WF_vars(MainStep)
    /\ \A w \in Threads : WF_vars(WorkerStep(w))

\* ==== properties ============================================================
Calls == 1..Len(returned)
LastReturn == returned[Len(returned)]
\* run_process has returned and no later call has started: the pool variables
\* are those of the call that returned last.
JustReturned == pc = "ready" /\ Len(returned) >= 1
PlainInts == \A i \in 1..Len(items) : items[i].kind = "int"
Busy == {w \in Threads : wstate[w] \in {"claimed", "running"}}
Alive == {w \in Threads : wstate[w] \in {"waiting", "claimed", "running"}}
\* A candidate element that is not an integer (isinstance(item, int) is false).
NonIntegers == {StrE}

\* C1: for a list of plain integers, every call of run_process returns a list
\* of the same length as items whose i-th entry is twice the i-th item,
\* whatever the ceiling and the interleaving of the workers.
C1_ResultIsInOrderDouble ==
    PlainInts =>
        \A r \in Calls :
            /\ Len(returned[r]) = Len(items)
            /\ \A i \in 1..Len(items) : returned[r][i] = 2 * items[i].val

\* C1 witness: a call returned a non-empty list for at least two different
\* integers processed by fewer workers than there are items.
C1_Witness ==
    /\ JustReturned
    /\ PlainInts
    /\ Len(items) >= 2
    /\ items[1] # items[2]
    /\ max_workers < Len(items)
    /\ LastReturn # <<>>

\* C2: all-or-nothing: every returned list has length len(items) or length 0.
C2_AllOrNothing ==
    \A r \in Calls : Len(returned[r]) \in {0, Len(items)}

\* C2 witness: a call returned after a failure although other items had
\* been transformed successfully.
C2_Witness ==
    /\ JustReturned
    /\ Len(items) >= 2
    /\ LastReturn = <<>>
    /\ fstate[1] = "done"
    /\ \E i \in 1..Len(items) : fstate[i] = "failed"

\* C3: when the transformation of some item fails, every call of run_process
\* returns the empty list to its caller with the failure caught by the except
\* clause, whichever item fails and whatever the other workers produced.
C3_FailureReturnsEmpty ==
    /\ (\E i \in 1..Len(items) : Raises(items[i])) =>
            \A r \in Calls : returned[r] = <<>> /\ caught[r]
    /\ (JustReturned /\ \E i \in Tasks : fstate[i] = "failed") => LastReturn = <<>>

\* C3 witness: the call returned empty with the first item failed and a
\* later item transformed successfully by another worker.
C3_Witness ==
    /\ JustReturned
    /\ LastReturn = <<>>
    /\ fstate[1] = "failed"
    /\ \E i \in 2..Len(items) : fstate[i] = "done"

\* C4: the number of workers holding a claimed, unfinished task never
\* exceeds min(MAX_WORKERS, len(items)).
C4_BoundedConcurrency ==
    Cardinality(Busy) <= Min(MAX_WORKERS, Len(items))

\* C4 witness: the ceiling is below the number of items and as many workers
\* as the ceiling allows are executing at once.
C4_Witness ==
    /\ MAX_WORKERS < Len(items)
    /\ MAX_WORKERS >= 2
    /\ Cardinality({w \in Threads : wstate[w] = "running"}) = MAX_WORKERS

\* C5: once run_process has returned, on either path, no worker of its pool
\* is alive.
C5_NoWorkerLeak ==
    JustReturned => Alive = {}

\* C5 witness: a call returned on the failure path and the workers it had
\* started have exited.
C5_Witness ==
    /\ JustReturned
    /\ LastReturn = <<>>
    /\ Cardinality({w \in Threads : wstate[w] = "exited"}) >= 2

\* C6: when the constructor fails, no pool was created, no worker was
\* started and no transformation was applied.
C6_FailFastValidation ==
    (error # NoError) =>
        /\ pools = 0
        /\ applied = 0
        /\ \A w \in Threads : wstate[w] = "unborn"
        /\ \A i \in Tasks : fstate[i] = "none"
        /\ returned = <<>>

\* C6 witness: the constructor failed on a list with a non-integer element.
C6_Witness ==
    /\ pc = "raised"
    /\ candidate.kind = "list"
    /\ error.message = "Incorrect data type at index"

\* C7 (as claimed): every candidate that is not a list is rejected with the
\* invalid-type error ValueError("Data must be a list").
C7_NonListRejectedAsInvalidType ==
    (pc = "raised" /\ candidate.kind # "list") =>
        error.type = "ValueError" /\ error.message = "Data must be a list"

\* C8: for a list, validation gives exactly one of: the empty-input error for
\* an empty list; the invalid-element error with the smallest offending index
\* (0-based) for a list with a non-integer element; success otherwise.
C8_ListValidationOrder ==
    (candidate.kind = "list" /\ pc \notin {"start", "validate"}) =>
        LET e == candidate.elems
            bad == {i \in 1..Len(e) : e[i] \in NonIntegers}
        IN  IF Len(e) = 0
            THEN pc = "raised" /\ error.message = "Data cannot be empty"
            ELSE IF bad # {}
            THEN /\ pc = "raised"
                 /\ error.message = "Incorrect data type at index"
                 /\ error.index + 1 \in bad
                 /\ \A i \in bad : error.index + 1 <= i
            ELSE error = NoError /\ pc # "raised" /\ items = e

\* C8 witness: a list with two non-integer elements, the first of them not
\* at the front, was rejected.
C8_Witness ==
    /\ pc = "raised"
    /\ candidate.kind = "list"
    /\ Len(candidate.elems) = 3
    /\ candidate.elems[1] \notin NonIntegers
    /\ candidate.elems[2] \in NonIntegers
    /\ candidate.elems[3] \in NonIntegers
    /\ error.index = 1

\* C9: a call of run_process on a constructed Processor returns the empty
\* list only if a failure was caught during that call, and that failure is
\* the failure of a transformation.
C9_EmptyMeansFailure ==
    \A r \in Calls :
        returned[r] = <<>> =>
            /\ caught[r]
            /\ \E i \in 1..Len(items) : Raises(items[i])

\* C9 witness: a call returned the empty list.
C9_Witness ==
    /\ JustReturned
    /\ LastReturn = <<>>
    /\ caught[Len(returned)]
    /\ \E i \in Tasks : fstate[i] = "failed"

\* C10: two calls of run_process on the same Processor return equal lists.
C10_RepeatedCallsAgree ==
    \A r1 \in Calls : \A r2 \in Calls : returned[r1] = returned[r2]

\* C10 witness: two calls have each returned a list of at least two entries
\* with different values.
C10_Witness ==
    /\ Len(returned) >= 2
    /\ Len(returned[1]) >= 2
    /\ Len(returned[2]) >= 2
    /\ returned[1][1] # returned[1][2]

\* The constructor has completed: a Processor exists.
Constructed == pc \notin {"start", "validate", "raised"}

\* C11: successful validation stores the candidate itself, unchanged, and
\* from then on no step (of run_process, on either path, or of a worker)
\* changes the stored items, the candidate or the stored worker count.
C11_InputReadOnly ==
    /\ [](Constructed => items = candidate.elems)
    /\ [][(pc \notin {"start", "validate"}) =>
            (items' = items /\ candidate' = candidate /\ max_workers' = max_workers)]_vars

\* C11 witness: two calls have returned, the first on the failure path after
\* some item had been transformed, and items still equals the candidate.
C11_Witness ==
    /\ Len(returned) = 2
    /\ returned[1] = <<>>
    /\ ninvoked[1] = 1
    /\ nwritten[2] = 1
    /\ items = candidate.elems

\* C12: a constructed Processor stores max_workers = min(MAX_WORKERS,
\* len(items)), which lies between 1 and MAX_WORKERS, so no pool is ever
\* created with a worker count below 1.
C12_EffectiveWorkers ==
    /\ Constructed =>
        /\ max_workers = Min(MAX_WORKERS, Len(items))
        /\ 1 <= max_workers
        /\ max_workers <= MAX_WORKERS
    /\ pools > 0 => max_workers >= 1

\* C12 witness: three items under the default ceiling of 8 give 3 workers,
\* and a pool has been created with them.
C12_Witness ==
    /\ Constructed
    /\ MAX_WORKERS = DefaultMaxWorkers
    /\ Len(items) = 3
    /\ max_workers = 3
    /\ pools = 1
    /\ pc = "submit"

TasksInQueue == {k \in 1..Len(queue) : queue[k] # 0}

\* C13: a non-empty result is complete, and is returned, only after every
\* task has completed: when list(...) has consumed the last future without
\* an exception, and when run_process has returned a non-empty list, every
\* one of the len(items) futures is done and no task is queued or executing.
C13_BulkSynchronous ==
    /\ (pc \in {"shutdown", "join"} /\ ~exc) =>
            \A i \in 1..Len(items) : fstate[i] = "done"
    /\ (JustReturned /\ LastReturn # <<>>) =>
            /\ \A i \in 1..Len(items) : fstate[i] = "done" /\ nwritten[i] = 1
            /\ Busy = {}
            /\ TasksInQueue = {}

\* C13 witness: a call with more items than workers returned its full list.
C13_Witness ==
    /\ JustReturned
    /\ Len(LastReturn) = 3
    /\ max_workers = 2
    /\ \A i \in 1..3 : nwritten[i] = 1

InRunProcess == pc \in {"submit", "collect", "shutdown", "join"}

\* C14: under fair scheduling every call of run_process eventually returns.
C14_Termination == InRunProcess ~> (pc = "ready")

\* C14 witness: a call that had to hand the wake-up from worker to worker
\* (two workers, three items) has returned.
C14_Witness ==
    /\ JustReturned
    /\ Len(items) = 3
    /\ Cardinality({w \in Threads : wstate[w] = "exited"}) = 2
    /\ queue = <<0>>

Holders(i) == {w \in Threads : wtask[w] = i}

\* C15: within one call each task is taken from the queue at most once, held
\* by at most one worker, its transformation entered at most once (no retry,
\* also after a failure) and its future written at most once; every write of
\* slot i is made by the worker that holds task i and is running it; and after
\* a successful call every index was claimed, run and written exactly once.
C15_TaskAndSlotExclusivity ==
    /\ [](\A i \in Tasks :
            /\ nclaimed[i] <= 1
            /\ ninvoked[i] <= nclaimed[i]
            /\ nwritten[i] <= ninvoked[i]
            /\ Cardinality(Holders(i)) <= 1)
    /\ []((JustReturned /\ LastReturn # <<>>) =>
            \A i \in 1..Len(items) :
                nclaimed[i] = 1 /\ ninvoked[i] = 1 /\ nwritten[i] = 1)
    /\ [][\A i \in Tasks :
            (nwritten'[i] > nwritten[i] \/ (fvalue'[i] # fvalue[i] /\ pc # "ready")) =>
                /\ nwritten'[i] = nwritten[i] + 1
                /\ \E w \in Holders(i) : wstate[w] = "running" /\ wstate'[w] = "waiting"
                /\ \A j \in Tasks \ {i} : nwritten'[j] = nwritten[j] /\ fvalue'[j] = fvalue[j]]_vars

\* C15 witness: a call failed on its second item after the first and the
\* third had been written, each task having been claimed and run once.
C15_Witness ==
    /\ JustReturned
    /\ LastReturn = <<>>
    /\ fstate[2] = "failed"
    /\ \A i \in 1..3 : nclaimed[i] = 1 /\ ninvoked[i] = 1 /\ nwritten[i] = 1

\* C16 (as claimed): in every completed successful call exactly
\* min(MAX_WORKERS, len(items)) distinct workers were started.
C16_ExactPoolSize ==
    (JustReturned /\ LastReturn # <<>>) => NumThreads = Min(MAX_WORKERS, Len(items))

\* C16 (amended): the pool never has more than min(MAX_WORKERS, len(items))
\* workers, it has at least one as soon as a task is submitted, and a
\* completed call has started between 1 and min(MAX_WORKERS, len(items)) of them.
C16_PoolSizeWithinCeiling ==
    /\ NumThreads <= Min(MAX_WORKERS, Len(items))
    /\ submitted >= 1 => NumThreads >= 1
    /\ JustReturned => (1 <= NumThreads /\ NumThreads <= max_workers)

\* C16 witness: a successful call completed with fewer workers started than
\* the ceiling allows (an earlier task finished before a later was submitted).
C16_Witness ==
    /\ JustReturned
    /\ LastReturn # <<>>
    /\ NumThreads < Min(MAX_WORKERS, Len(items))

\* C17: tasks are submitted and claimed in increasing index order: the
\* submitted tasks and the claimed tasks are each an initial segment of the
\* indices, the queue holds the unclaimed tasks in increasing order so that
\* the task a free worker takes next (the head) is the lowest unclaimed one,
\* and a task whose transformation has been entered has every lower task
\* claimed.
C17_InOrderDispatch ==
    /\ \A i \in Tasks : fstate[i] # "none" <=> i <= submitted
    /\ \A i \in Tasks : \A j \in Tasks :
            i < j =>
                /\ nclaimed[j] >= 1 => nclaimed[i] >= 1
                /\ ninvoked[j] >= 1 => nclaimed[i] >= 1
    /\ \A k \in 1..Len(queue) :
            queue[k] # 0 =>
                /\ nclaimed[queue[k]] = 0
                /\ (k < Len(queue) /\ queue[k + 1] # 0) => queue[k + 1] = queue[k] + 1
    /\ (queue # <<>> /\ Head(queue) # 0) =>
            /\ \A i \in Tasks : i < Head(queue) => nclaimed[i] >= 1
            /\ \A i \in Tasks : (Head(queue) <= i /\ i <= submitted) => nclaimed[i] = 0

\* C17 witness: the second task is executing while the first, claimed before
\* it by another worker, has not started yet, and the third is still queued.
C17_Witness ==
    /\ fstate[2] = "running"
    /\ fstate[1] = "pending"
    /\ nclaimed[1] = 1
    /\ queue = <<3>>

====
